---- MODULE Spec2Model ----
(***************************************************************************)
(* The calculator of calculator_viewmodel.py / calculator_model.py /       *)
(* calculator_view.py as a state machine.                                  *)
(*                                                                         *)
(* Strings are sequences of one-character strings, so that concatenation,  *)
(* slicing, startswith, split and float() are computed on the characters.  *)
(* Numbers are decimals [m, s] standing for m / 10^s; the result of an     *)
(* arithmetic operation is a quotient of decimals [n, d, s] standing for   *)
(* (n / d) / 10^s, formatted the way calculate_result formats a float.     *)
(***************************************************************************)
EXTENDS Integers, Sequences, FiniteSets, TLC

\* ------------------------------------------------------------------ text

DigitChars == <<"0", "1", "2", "3", "4", "5", "6", "7", "8", "9">>

IsDigit(c) == \E i \in 1..10 : DigitChars[i] = c

DigitVal(c) == (CHOOSE i \in 1..10 : DigitChars[i] = c) - 1

AllDigits(str) == \A i \in 1..Len(str) : IsDigit(str[i])

\* str[:-1]
DropLast(str) == SubSeq(str, 1, Len(str) - 1)

\* str[1:]
DropFirst(str) == SubSeq(str, 2, Len(str))

\* str.startswith(c) for a one-character c
StartsWith(str, c) == Len(str) > 0 /\ str[1] = c

\* c in str
Contains(str, c) == \E i \in 1..Len(str) : str[i] = c

\* the number of occurrences of c in str
RECURSIVE Count(_, _)
Count(str, c) ==
    IF str = <<>> THEN 0
    ELSE (IF Head(str) = c THEN 1 ELSE 0) + Count(Tail(str), c)

\* str.split(c)[-1]: what follows the last c of str (all of str if none)
RECURSIVE AfterLast(_, _)
AfterLast(str, c) ==
    IF ~Contains(str, c) THEN str
    ELSE AfterLast(DropFirst(str), c)

\* what precedes the first character of str that is in cs (all of str if none)
RECURSIVE Before(_, _)
Before(str, cs) ==
    IF str = <<>> \/ Head(str) \in cs THEN <<>>
    ELSE <<Head(str)>> \o Before(Tail(str), cs)

\* what follows the first character of str that is in cs
RECURSIVE After(_, _)
After(str, cs) ==
    IF str = <<>> THEN <<>>
    ELSE IF Head(str) \in cs THEN Tail(str)
    ELSE After(Tail(str), cs)

Abs(x) == IF x < 0 THEN -x ELSE x

Max(x, y) == IF x >= y THEN x ELSE y

\* the value of a sequence of digit characters, read left to right
RECURSIVE ToNat(_)
ToNat(str) ==
    IF str = <<>> THEN 0
    ELSE 10 * ToNat(DropLast(str)) + DigitVal(str[Len(str)])

\* str(n) for a natural number n
RECURSIVE NatStr(_)
NatStr(n) ==
    IF n < 10 THEN <<DigitChars[n + 1]>>
    ELSE NatStr(n \div 10) \o <<DigitChars[(n % 10) + 1]>>

RECURSIVE Zeros(_)
Zeros(k) == IF k <= 0 THEN <<>> ELSE <<"0">> \o Zeros(k - 1)

RECURSIVE StripLeadingZeros(_)
StripLeadingZeros(str) ==
    IF Len(str) > 1 /\ Head(str) = "0" THEN StripLeadingZeros(Tail(str))
    ELSE str

RECURSIVE StripTrailingZeros(_)
StripTrailingZeros(str) ==
    IF Len(str) > 0 /\ str[Len(str)] = "0" THEN StripTrailingZeros(DropLast(str))
    ELSE str

ErrorText == <<"E", "r", "r", "o", "r">>

\* ------------------------------------------------------------- float()

\* a decimal m / 10^s in lowest form: no trailing zero is kept after the point
RECURSIVE Norm(_, _)
Norm(m, s) ==
    IF m = 0 THEN [m |-> 0, s |-> 0]
    ELSE IF s > 0 /\ m % 10 = 0 THEN Norm(m \div 10, s - 1)
    ELSE IF s < 0 THEN Norm(m * 10, s + 1)
    ELSE [m |-> m, s |-> s]

\* float(str): ok is FALSE where Python raises ValueError.  The grammar is
\* [sign] (digits [. [digits]] | . digits) [(e|E) [sign] digits]
ParseFloat(str) ==
    LET signed   == Len(str) > 0 /\ str[1] \in {"-", "+"}
        neg      == signed /\ str[1] = "-"
        body     == IF signed THEN DropFirst(str) ELSE str
        hasExp   == Contains(body, "e") \/ Contains(body, "E")
        mant     == Before(body, {"e", "E"})
        expo     == After(body, {"e", "E"})
        expSign  == Len(expo) > 0 /\ expo[1] \in {"-", "+"}
        expDig   == IF expSign THEN DropFirst(expo) ELSE expo
        intPart  == Before(mant, {"."})
        fracPart == After(mant, {"."})
        mantOk   == /\ AllDigits(intPart)
                    /\ AllDigits(fracPart)
                    /\ Len(intPart) + Len(fracPart) >= 1
        expOk    == ~hasExp \/ (Len(expDig) >= 1 /\ AllDigits(expDig))
        expVal   == IF ~hasExp THEN 0
                    ELSE IF expSign /\ expo[1] = "-" THEN -ToNat(expDig)
                    ELSE ToNat(expDig)
        mag      == ToNat(intPart \o fracPart)
        val      == Norm(IF neg THEN -mag ELSE mag, Len(fracPart) - expVal)
    IN  IF mantOk /\ expOk
        THEN [ok |-> TRUE, m |-> val.m, s |-> val.s]
        ELSE [ok |-> FALSE, m |-> 0, s |-> 0]

\* ---------------------------------------------------- calculator_model.py

RECURSIVE Pow10(_)
Pow10(k) == IF k <= 0 THEN 1 ELSE 10 * Pow10(k - 1)

\* A result [exc, n, d, s]: the number (n / d) / 10^s, or the exception raised.
Value(n, d, s) == [exc |-> "none", n |-> n, d |-> d, s |-> s]

Raise(e) == [exc |-> e, n |-> 0, d |-> 1, s |-> 0]

add(a, b) ==
    LET s == Max(a.s, b.s)
    IN  Value(a.m * Pow10(s - a.s) + b.m * Pow10(s - b.s), 1, s)

\* subtract with its operands exchanged
subtract_swapped(a, b) ==
    LET s == Max(a.s, b.s)
    IN  Value(b.m * Pow10(s - b.s) - a.m * Pow10(s - a.s), 1, s)

subtract(a, b) ==
    LET s == Max(a.s, b.s)
    IN  Value(a.m * Pow10(s - a.s) - b.m * Pow10(s - b.s), 1, s)

multiply(a, b) == Value(a.m * b.m, 1, a.s + b.s)

\* divide without the test of line 146
divide_unchecked(a, b) ==
    Value(IF b.m < 0 THEN -a.m ELSE a.m, Abs(b.m), a.s - b.s)

divide(a, b) ==
    IF b.m = 0 THEN Raise("ZeroDivisionError")
    ELSE Value(IF b.m < 0 THEN -a.m ELSE a.m, Abs(b.m), a.s - b.s)

\* ---------------------------------- CalculatorModel.evaluate_expression

\* expression.replace(c, '')
RECURSIVE Remove(_, _)
Remove(str, c) ==
    IF str = <<>> THEN <<>>
    ELSE (IF str[1] = c THEN <<>> ELSE <<str[1]>>) \o Remove(DropFirst(str), c)

\* the character class [0-9+\-*/.() ] of _is_valid_expression
AllowedChars == {"0", "1", "2", "3", "4", "5", "6", "7", "8", "9",
                 "+", "-", "*", "/", ".", "(", ")", " "}

\* what \s matches
Whitespace == {" ", "\n", "\t", "\r"}

\* where $ matches in str: at its end, and before a newline that ends it
AtDollar(str, k) ==
    k = Len(str) \/ (k = Len(str) - 1 /\ str[Len(str)] = "\n")

\* re.match(r'^[0-9+\-*/.() ]+$', expression)
IsValidExpression(str) ==
    \E k \in 1..Len(str) :
        /\ \A i \in 1..k : str[i] \in AllowedChars
        /\ AtDollar(str, k)

\* re.search(r'/\s*0(?=[+\-*/\)])|/\s*0$', expression)
HasDivisionByZero(str) ==
    \E i \in 1..Len(str) : \E j \in (i + 1)..Len(str) :
        /\ str[i] = "/"
        /\ \A x \in (i + 1)..(j - 1) : str[x] \in Whitespace
        /\ str[j] = "0"
        /\ \/ j < Len(str) /\ str[j + 1] \in {"+", "-", "*", "/", ")"}
           \/ AtDollar(str, j)

\* eval(expression), for the expressions that pass _is_valid_expression and
\* hold no '.': the tokens of Python's lexer,
RECURSIVE DigitRun(_)
DigitRun(str) ==
    IF str # <<>> /\ IsDigit(str[1]) THEN <<str[1]>> \o DigitRun(DropFirst(str))
    ELSE <<>>

\* "0", "00" and "10" are integer literals, "01" is a SyntaxError
BadLiteral(run) ==
    Len(run) > 1 /\ run[1] = "0" /\ \E i \in 1..Len(run) : run[i] # "0"

RECURSIVE Tokens(_)
Tokens(str) ==
    IF str = <<>> THEN <<>>
    ELSE IF IsDigit(str[1])
    THEN CHOOSE r \in
             {<<[t |-> IF BadLiteral(run) THEN "bad" ELSE "num", v |-> ToNat(run)]>>
              \o Tokens(SubSeq(str, Len(run) + 1, Len(str))) :
                  run \in {DigitRun(str)}} : TRUE
    ELSE IF Len(str) >= 2 /\ str[1] = "*" /\ str[2] = "*"
    THEN <<[t |-> "**", v |-> 0]>> \o Tokens(SubSeq(str, 3, Len(str)))
    ELSE IF Len(str) >= 2 /\ str[1] = "/" /\ str[2] = "/"
    THEN <<[t |-> "//", v |-> 0]>> \o Tokens(SubSeq(str, 3, Len(str)))
    ELSE <<[t |-> IF str[1] \in {"+", "-", "*", "/", "(", ")"} THEN str[1] ELSE "bad",
            v |-> 0]>>
         \o Tokens(DropFirst(str))

\* the text of token i, "end" after the last
Tok(toks, i) == IF i <= Len(toks) THEN toks[i].t ELSE "end"

\* An evaluation [ok, exc, kind, n, d, pos]: ok is FALSE on a SyntaxError; exc
\* is the first exception the evaluation raises, "Beyond" where the value
\* leaves the model's integers; the value is the int or float n / d, or the
\* empty tuple; pos is the next token.
SyntaxError == [ok |-> FALSE, exc |-> "none", kind |-> "int", n |-> 0, d |-> 1, pos |-> 0]

Num(kind, n, d, pos) ==
    [ok |-> TRUE, exc |-> "none", kind |-> kind, n |-> n, d |-> d, pos |-> pos]

Tuple(pos) == [ok |-> TRUE, exc |-> "none", kind |-> "tuple", n |-> 0, d |-> 1, pos |-> pos]

Raising(e, pos) == [ok |-> TRUE, exc |-> e, kind |-> "int", n |-> 0, d |-> 1, pos |-> pos]

\* the most decimal digits of a numerator or denominator the model computes
MaxValueDigits == 9

Digits10(n) == Len(NatStr(Abs(n)))

FloatIf(a, b) == IF a.kind = "float" \/ b.kind = "float" THEN "float" ELSE "int"

\* n / d with d made positive
Ratio(kind, n, d, pos) ==
    IF d < 0 THEN Num(kind, -n, -d, pos) ELSE Num(kind, n, d, pos)

RECURSIVE IntPow(_, _)
IntPow(b, e) == IF e <= 0 THEN 1 ELSE b * IntPow(b, e - 1)

\* a ** b
Power(a, b, pos) ==
    IF "tuple" \in {a.kind, b.kind} THEN Raising("TypeError", pos)
    ELSE IF b.n % b.d # 0
    THEN IF a.n = 0
         THEN IF b.n > 0 THEN Num("float", 0, 1, pos)
              ELSE Raising("ZeroDivisionError", pos)
         ELSE IF a.n = a.d THEN Num("float", 1, 1, pos)
         ELSE Raising("Beyond", pos)
    ELSE LET e == b.n \div b.d
         IN  IF e < 0 /\ a.n = 0 THEN Raising("ZeroDivisionError", pos)
             ELSE IF Max(Digits10(a.n), Digits10(a.d)) * Abs(e) > MaxValueDigits
                     /\ Abs(a.n) # a.d /\ a.n # 0
             THEN Raising("Beyond", pos)
             ELSE IF e >= 0
             THEN Num(FloatIf(a, b), IntPow(a.n, e), IntPow(a.d, e), pos)
             ELSE Ratio("float", IntPow(a.d, -e), IntPow(a.n, -e), pos)

\* a op b for the binary operators other than **
Binary(op, a, b, pos) ==
    IF a.exc # "none" THEN [a EXCEPT !.pos = pos]
    ELSE IF b.exc # "none" THEN [b EXCEPT !.pos = pos]
    ELSE IF op = "**" THEN Power(a, b, pos)
    ELSE IF a.kind = "tuple" \/ b.kind = "tuple"
    THEN IF op = "+" /\ a.kind = "tuple" /\ b.kind = "tuple" THEN Tuple(pos)
         ELSE IF op = "*" /\ "int" \in {a.kind, b.kind} THEN Tuple(pos)
         ELSE Raising("TypeError", pos)
    ELSE IF Digits10(a.n) + Digits10(b.d) > MaxValueDigits
            \/ Digits10(a.d) + Digits10(b.n) > MaxValueDigits
            \/ Digits10(a.n) + Digits10(b.n) > MaxValueDigits
            \/ Digits10(a.d) + Digits10(b.d) > MaxValueDigits
    THEN Raising("Beyond", pos)
    ELSE CASE op = "+"  -> Num(FloatIf(a, b), a.n * b.d + b.n * a.d, a.d * b.d, pos)
           [] op = "-"  -> Num(FloatIf(a, b), a.n * b.d - b.n * a.d, a.d * b.d, pos)
           [] op = "*"  -> Num(FloatIf(a, b), a.n * b.n, a.d * b.d, pos)
           [] op = "/"  -> IF b.n = 0 THEN Raising("ZeroDivisionError", pos)
                           ELSE Ratio("float", a.n * b.d, a.d * b.n, pos)
           [] OTHER     -> IF b.n = 0 THEN Raising("ZeroDivisionError", pos)
                           ELSE LET q == Ratio("int", a.n * b.d, a.d * b.n, pos)
                                IN  Num(FloatIf(a, b), q.n \div q.d, 1, pos)

\* -a and +a
Unary(op, a) ==
    IF a.exc # "none" THEN a
    ELSE IF a.kind = "tuple" THEN Raising("TypeError", a.pos)
    ELSE IF op = "-" THEN [a EXCEPT !.n = -a.n]
    ELSE a

\* a(...): the callee, then the argument, then the call of a number or tuple
Call(a, arg, pos) ==
    IF a.exc # "none" THEN [a EXCEPT !.pos = pos]
    ELSE IF arg.exc # "none" THEN [arg EXCEPT !.pos = pos]
    ELSE Raising("TypeError", pos)

\* and Python's grammar of expressions over them.  A sub-expression is
\* evaluated once: CHOOSE r \in {F(x) : x \in {e}} : TRUE is F(e).
RECURSIVE ParseExpr(_, _), ParseExprRest(_, _), ParseTerm(_, _), ParseTermRest(_, _),
          ParseFactor(_, _), ParsePower(_, _), ParsePrimary(_, _), ParseTrailers(_, _),
          ParseAtom(_, _)

\* NUMBER | '(' ')' | '(' expr ')'
ParseAtom(toks, i) ==
    CASE Tok(toks, i) = "num" -> Num("int", toks[i].v, 1, i + 1)
      [] Tok(toks, i) = "(" ->
             IF Tok(toks, i + 1) = ")" THEN Tuple(i + 2)
             ELSE CHOOSE r \in
                      {IF e.ok /\ Tok(toks, e.pos) = ")" THEN [e EXCEPT !.pos = @ + 1]
                       ELSE SyntaxError : e \in {ParseExpr(toks, i + 1)}} : TRUE
      [] OTHER -> SyntaxError

\* ( '(' [ ['*' | '**'] expr ] ')' )*
ParseTrailers(toks, a) ==
    IF Tok(toks, a.pos) # "(" THEN a
    ELSE IF Tok(toks, a.pos + 1) = ")"
    THEN ParseTrailers(toks, Call(a, Tuple(0), a.pos + 2))
    ELSE CHOOSE r \in
             {IF arg.ok /\ Tok(toks, arg.pos) = ")"
              THEN ParseTrailers(toks, Call(a, arg, arg.pos + 1))
              ELSE SyntaxError :
                  arg \in {ParseExpr(toks, IF Tok(toks, a.pos + 1) \in {"*", "**"}
                                           THEN a.pos + 2 ELSE a.pos + 1)}} : TRUE

ParsePrimary(toks, i) ==
    CHOOSE r \in {IF a.ok THEN ParseTrailers(toks, a) ELSE SyntaxError :
                      a \in {ParseAtom(toks, i)}} : TRUE

\* primary ['**' factor]
ParsePower(toks, i) ==
    CHOOSE r \in
        {IF ~a.ok THEN SyntaxError
         ELSE IF Tok(toks, a.pos) # "**" THEN a
         ELSE CHOOSE q \in {IF b.ok THEN Binary("**", a, b, b.pos) ELSE SyntaxError :
                                b \in {ParseFactor(toks, a.pos + 1)}} : TRUE :
             a \in {ParsePrimary(toks, i)}} : TRUE

\* ('+' | '-') factor | power
ParseFactor(toks, i) ==
    IF Tok(toks, i) \in {"+", "-"}
    THEN CHOOSE r \in {IF a.ok THEN Unary(toks[i].t, a) ELSE SyntaxError :
                           a \in {ParseFactor(toks, i + 1)}} : TRUE
    ELSE ParsePower(toks, i)

\* factor (('*' | '/' | '//') factor)*
ParseTermRest(toks, a) ==
    IF Tok(toks, a.pos) \notin {"*", "/", "//"} THEN a
    ELSE CHOOSE r \in
             {IF b.ok THEN ParseTermRest(toks, Binary(toks[a.pos].t, a, b, b.pos))
              ELSE SyntaxError : b \in {ParseFactor(toks, a.pos + 1)}} : TRUE

ParseTerm(toks, i) ==
    CHOOSE r \in {IF a.ok THEN ParseTermRest(toks, a) ELSE SyntaxError :
                      a \in {ParseFactor(toks, i)}} : TRUE

\* term (('+' | '-') term)*
ParseExprRest(toks, a) ==
    IF Tok(toks, a.pos) \notin {"+", "-"} THEN a
    ELSE CHOOSE r \in
             {IF b.ok THEN ParseExprRest(toks, Binary(toks[a.pos].t, a, b, b.pos))
              ELSE SyntaxError : b \in {ParseTerm(toks, a.pos + 1)}} : TRUE

ParseExpr(toks, i) ==
    CHOOSE r \in {IF a.ok THEN ParseExprRest(toks, a) ELSE SyntaxError :
                      a \in {ParseTerm(toks, i)}} : TRUE

\* eval(expression): a newline that ends the expression is ignored
Eval(str) ==
    CHOOSE r \in
        {CHOOSE q \in {IF e.ok /\ e.pos = Len(toks) + 1 THEN e
                       ELSE [SyntaxError EXCEPT !.exc = "SyntaxError"] :
                           e \in {ParseExpr(toks, 1)}} : TRUE :
             toks \in {Tokens(IF str # <<>> /\ str[Len(str)] = "\n"
                              THEN DropLast(str) ELSE str)}} : TRUE

\* What evaluate_expression(expression) returns or raises, and whether it
\* handed the expression to eval
Returned(exc, kind, n, d, evaluated) ==
    [exc |-> exc, kind |-> kind, n |-> n, d |-> d, evaluated |-> evaluated]

\* lines 47-60, for the expression without its spaces
Evaluated(stripped) ==
    CHOOSE r \in
        {IF e.exc \in {"SyntaxError", "TypeError"} \/ (e.exc = "none" /\ e.kind = "tuple")
         THEN Returned("ValueError", "int", 0, 1, TRUE)
         ELSE IF e.exc # "none" THEN Returned(e.exc, "int", 0, 1, TRUE)
         ELSE Returned("none", e.kind, e.n, e.d, TRUE) : e \in {Eval(stripped)}} : TRUE

EvaluateExpression(expression) ==
    IF expression = <<>> THEN Returned("none", "int", 0, 1, FALSE)
    ELSE CHOOSE r \in
             {IF ~IsValidExpression(stripped)
              THEN Returned("ValueError", "int", 0, 1, FALSE)
              ELSE IF HasDivisionByZero(stripped)
              THEN Returned("ZeroDivisionError", "int", 0, 1, FALSE)
              ELSE Evaluated(stripped) : stripped \in {Remove(expression, " ")}} : TRUE

\* ------------------------------------------- formatting of a float result

\* the next k digits of the long division of rem by d, and what is then left
RECURSIVE LongDiv(_, _, _)
LongDiv(rem, d, k) ==
    IF k <= 0 THEN <<>>
    ELSE <<DigitChars[((rem * 10) \div d) + 1]>> \o LongDiv((rem * 10) % d, d, k - 1)

RECURSIVE LongRem(_, _, _)
LongRem(rem, d, k) ==
    IF k <= 0 THEN rem ELSE LongRem((rem * 10) % d, d, k - 1)

\* the number of zeros that follow the point of rem / d, for 0 < rem < d
RECURSIVE LeadZeros(_, _)
LeadZeros(rem, d) ==
    IF rem * 10 >= d THEN 0 ELSE 1 + LeadZeros(rem * 10, d)

RECURSIVE DivisibleByPow10(_, _)
DivisibleByPow10(q, k) ==
    k <= 0 \/ q = 0 \/ (q % 10 = 0 /\ DivisibleByPow10(q \div 10, k - 1))

RECURSIVE ShiftRight(_, _)
ShiftRight(q, k) == IF k <= 0 \/ q = 0 THEN q ELSE ShiftRight(q \div 10, k - 1)

\* result == int(result)
IsWhole(r) ==
    LET a == Abs(r.n)
    IN  IF r.s <= 0 THEN LongRem(a % r.d, r.d, -r.s) = 0
        ELSE a % r.d = 0 /\ DivisibleByPow10(a \div r.d, r.s)

\* str(int(result)), for a whole result
IntStr(r) ==
    LET a      == Abs(r.n)
        digits == IF r.s <= 0
                  THEN StripLeadingZeros(NatStr(a \div r.d) \o LongDiv(a % r.d, r.d, -r.s))
                  ELSE NatStr(ShiftRight(a \div r.d, r.s))
    IN  IF r.n < 0 /\ digits # <<"0">> THEN <<"-">> \o digits ELSE digits

\* the precision of the 'g' presentation type when none is given
GPrecision == 6

\* The model computes a result exactly where Python computes it in binary
\* floating point.  The two can differ only by the direction of the float's
\* rounding error, and only where the formatting sits on an edge: a result
\* exactly halfway between two GPrecision-digit numbers, or a whole result of
\* more than GPrecision digits (a float that is off a whole number of at most
\* GPrecision digits is shown by 'g' as that whole number).  err is that direction: -1 (the float is
\* below the exact result), 0 (the float is the exact result), 1 (above).

RECURSIVE OddPart(_)
OddPart(d) == IF d > 0 /\ d % 2 = 0 THEN OddPart(d \div 2) ELSE d

RECURSIVE Pow5(_)
Pow5(k) == IF k <= 0 THEN 1 ELSE 5 * Pow5(k - 1)

RECURSIVE DropFives(_, _)
DropFives(d, k) ==
    IF k > 0 /\ d % 5 = 0 THEN DropFives(d \div 5, k - 1) ELSE d

\* the decimal m / 10^s is a binary fraction, which float() represents exactly
BinExact(a) == a.m = 0 \/ (a.s <= 13 /\ a.m % Pow5(a.s) = 0)

\* the result (n / d) / 10^s is a binary fraction
Dyadic(r) ==
    LET o == OddPart(r.d)
    IN  \/ r.n = 0
        \/ r.s >= 0 /\ r.s <= 13 /\ r.n % o = 0 /\ (r.n \div o) % Pow5(r.s) = 0
        \/ r.s < 0 /\ r.n % DropFives(o, -r.s) = 0

\* the directions the float error of a op b can have
Errs(a, b, r) ==
    IF BinExact(a) /\ BinExact(b) /\ Dyadic(r) THEN {0} ELSE {-1, 0, 1}

\* f"{result:g}": GPrecision significant digits, an exact tie rounded to even,
\* trailing zeros removed, in exponent form when the decimal exponent is below
\* -4 or not below GPrecision
FormatG(r, err) ==
    LET a       == Abs(r.n)
        q0      == a \div r.d
        r0      == a % r.d
        ints    == NatStr(q0)
        first   == IF q0 > 0 THEN 1 ELSE Len(ints) + LeadZeros(r0, r.d) + 1
        k       == Max(0, first + GPrecision - Len(ints))
        stream  == ints \o LongDiv(r0, r.d, k)
        left    == LongRem(r0, r.d, k)
        sig     == SubSeq(stream, first, first + GPrecision - 1)
        next    == DigitVal(stream[first + GPrecision])
        rest    == SubSeq(stream, first + GPrecision + 1, Len(stream))
        sticky  == left # 0 \/ \E i \in 1..Len(rest) : rest[i] # "0"
        odd     == DigitVal(sig[GPrecision]) % 2 = 1
        up      == \/ next > 5
                   \/ next = 5 /\ (sticky \/ err > 0 \/ (err = 0 /\ odd))
        rounded == ToNat(sig) + (IF up THEN 1 ELSE 0)
        carry   == rounded = Pow10(GPrecision)
        x       == Len(ints) - r.s - first + (IF carry THEN 1 ELSE 0)
        p       == StripTrailingZeros(NatStr(IF carry THEN rounded \div 10 ELSE rounded))
        expo    == NatStr(Abs(x))
        body    == IF x < -4 \/ x >= GPrecision
                   THEN <<p[1]>>
                        \o (IF Len(p) > 1 THEN <<".">> \o DropFirst(p) ELSE <<>>)
                        \o <<"e", IF x < 0 THEN "-" ELSE "+">>
                        \o (IF Len(expo) < 2 THEN <<"0">> \o expo ELSE expo)
                   ELSE IF x >= 0
                   THEN IF Len(p) <= x + 1 THEN p \o Zeros(x + 1 - Len(p))
                        ELSE SubSeq(p, 1, x + 1) \o <<".">> \o SubSeq(p, x + 2, Len(p))
                   ELSE <<"0", ".">> \o Zeros(-x - 1) \o p
    IN  IF r.n < 0 THEN <<"-">> \o body ELSE body

\* the formatting with str(result) for str(int(result)) in line 121: a whole
\* float keeps its ".0"
FormatResult_str_of_float(r, err) ==
    IF IsWhole(r) /\ (err = 0 \/ r.n = 0) THEN IntStr(r) \o <<".", "0">>
    ELSE FormatG(r, err)

\* calculator_viewmodel.py, lines 119-123 and 181-185: a float equal to its
\* integer part is shown as that integer, any other float by 'g'
FormatResult(r, err) ==
    IF IsWhole(r) /\ (err = 0 \/ r.n = 0) THEN IntStr(r) ELSE FormatG(r, err)

\* ------------------------------------------------ calculator_viewmodel.py

VARIABLES
    display_value,          \* the string shown to the user
    current_input,          \* always "", written by the clear commands
    operator,               \* the pending operator, or None
    previous_value,         \* the first operand of the pending operation
    should_reset_display,   \* the next digit or point starts a new number
    observers,              \* the callbacks notify_observers calls, in order
    display_var,            \* the View's StringVar, set by update_display
    raised,                 \* the exception the last command let escape
    keys,                   \* the keys pressed since the last C
    script,                 \* how far those keys follow a scripted calculation
    call,                   \* a call of a CalculatorModel method: its arguments
    returned                \* what that call returned or raised

vars == <<display_value, current_input, operator, previous_value,
          should_reset_display, observers, display_var, raised>>

None == "None"

Operators == {"+", "-", "*", "/"}

Zero == [m |-> 0, s |-> 0]

Hundred == [m |-> 100, s |-> 0]

\* what the observers leave in display_var when notified of value: every
\* registered observer is CalculatorView.update_display
Notify(value) == IF observers # <<>> THEN value ELSE display_var

\* the dispatch of calculate_result on self.operator
Apply(op, a, b) ==
    CASE op = "+" -> add(a, b)
      [] op = "-" -> subtract(a, b)
      [] op = "*" -> multiply(a, b)
      [] op = "/" -> divide(a, b)
      [] OTHER    -> Raise("ValueError")

\* calculate_result without the test of line 102
CalculateResult_unguarded(dv, op, pv, rs, err) ==
    LET cur    == ParseFloat(dv)
        result == Apply(op, pv, cur)
        same   == [display_value |-> dv, operator |-> op, previous_value |-> pv,
                   should_reset_display |-> rs, notified |-> FALSE]
    IN  IF ~cur.ok \/ result.exc # "none"
        THEN [same EXCEPT !.display_value = ErrorText, !.notified = TRUE]
        ELSE [display_value |-> FormatResult(result, err), operator |-> None,
              previous_value |-> Zero, should_reset_display |-> TRUE,
              notified |-> TRUE]

\* calculate_result resetting the calculation in its except branches too
CalculateResult_failure_resets(dv, op, pv, rs, err) ==
    LET cur    == ParseFloat(dv)
        result == Apply(op, pv, cur)
        same   == [display_value |-> dv, operator |-> op, previous_value |-> pv,
                   should_reset_display |-> rs, notified |-> FALSE]
    IN  IF op = None THEN same
        ELSE IF ~cur.ok \/ result.exc # "none"
        THEN [display_value |-> ErrorText, operator |-> None,
              previous_value |-> Zero, should_reset_display |-> TRUE,
              notified |-> TRUE]
        ELSE [display_value |-> FormatResult(result, err), operator |-> None,
              previous_value |-> Zero, should_reset_display |-> TRUE,
              notified |-> TRUE]

\* The fields of the ViewModel after calculate_result() called with display
\* dv, operator op, first operand pv and reset flag rs, and whether the
\* observers were notified; err is the direction of the float error.
CalculateResult(dv, op, pv, rs, err) ==
    LET cur    == ParseFloat(dv)
        result == Apply(op, pv, cur)
        same   == [display_value |-> dv, operator |-> op, previous_value |-> pv,
                   should_reset_display |-> rs, notified |-> FALSE]
    IN  IF op = None THEN same
        ELSE IF ~cur.ok \/ result.exc # "none"
        THEN [same EXCEPT !.display_value = ErrorText, !.notified = TRUE]
        ELSE [display_value |-> FormatResult(result, err), operator |-> None,
              previous_value |-> Zero, should_reset_display |-> TRUE,
              notified |-> TRUE]

\* the directions the float error of that calculation can have
ResultErrs(dv, op, pv) ==
    LET cur    == ParseFloat(dv)
        result == Apply(op, pv, cur)
    IN  IF op # None /\ cur.ok /\ result.exc = "none"
        THEN Errs(pv, [m |-> cur.m, s |-> cur.s], result)
        ELSE {0}

\* the display once a pending reset has been carried out
Fresh == IF should_reset_display THEN <<"0">> ELSE display_value

\* input_digit without the test of line 62: the digit is always appended
input_digit_always_appends(digit) ==
    /\ display_value' = Fresh \o <<digit>>
    /\ should_reset_display' = FALSE
    /\ display_var' = Notify(display_value')
    /\ raised' = "none"
    /\ UNCHANGED <<current_input, operator, previous_value, observers>>

input_digit(digit) ==
    /\ display_value' = IF Fresh = <<"0">> THEN <<digit>> ELSE Fresh \o <<digit>>
    /\ should_reset_display' = FALSE
    /\ display_var' = Notify(display_value')
    /\ raised' = "none"
    /\ UNCHANGED <<current_input, operator, previous_value, observers>>

\* display_value.split('/')[-1].split('*')[-1].split('+')[-1].split('-')[-1]
CurrentNumber(str) == AfterLast(AfterLast(AfterLast(AfterLast(str, "/"), "*"), "+"), "-")

\* input_decimal without line 78: the observers are not told of the point
input_decimal_silent ==
    /\ should_reset_display' = FALSE
    /\ display_value' = IF ~Contains(CurrentNumber(Fresh), ".")
                        THEN Fresh \o <<".">> ELSE Fresh
    /\ raised' = "none"
    /\ UNCHANGED <<display_var, current_input, operator, previous_value, observers>>

input_decimal ==
    /\ should_reset_display' = FALSE
    /\ IF ~Contains(CurrentNumber(Fresh), ".")
       THEN /\ display_value' = Fresh \o <<".">>
            /\ display_var' = Notify(display_value')
       ELSE /\ display_value' = Fresh
            /\ UNCHANGED display_var
    /\ raised' = "none"
    /\ UNCHANGED <<current_input, operator, previous_value, observers>>

\* input_operator without line 92: the first operand is not taken from the
\* display
input_operator_stale_operand(op) ==
    \E f \in {ParseFloat(display_value)} :
        /\ IF f.ok
           THEN /\ operator' = op
                /\ should_reset_display' = TRUE
                /\ raised' = "none"
           ELSE /\ operator' = operator
                /\ should_reset_display' = should_reset_display
                /\ raised' = "ValueError"
        /\ UNCHANGED <<display_value, display_var, previous_value,
                       current_input, observers>>

\* input_operator without lines 88-89: a pending operation is dropped
input_operator_no_chain(op) ==
    \E f \in {ParseFloat(display_value)} :
        /\ IF f.ok
           THEN /\ previous_value' = [m |-> f.m, s |-> f.s]
                /\ operator' = op
                /\ should_reset_display' = TRUE
                /\ raised' = "none"
           ELSE /\ UNCHANGED <<previous_value, operator, should_reset_display>>
                /\ raised' = "ValueError"
        /\ UNCHANGED <<display_value, display_var, current_input, observers>>

input_operator(op) ==
    \E err \in IF operator # None /\ ~should_reset_display
               THEN ResultErrs(display_value, operator, previous_value)
               ELSE {0} :
    \E c \in {IF operator # None /\ ~should_reset_display
              THEN CalculateResult(display_value, operator, previous_value,
                                   should_reset_display, err)
              ELSE [display_value |-> display_value, operator |-> operator,
                    previous_value |-> previous_value,
                    should_reset_display |-> should_reset_display,
                    notified |-> FALSE]} :
    \E f \in {ParseFloat(c.display_value)} :
        /\ display_value' = c.display_value
        /\ display_var' = IF c.notified THEN Notify(c.display_value) ELSE display_var
        /\ IF f.ok
           THEN /\ previous_value' = [m |-> f.m, s |-> f.s]
                /\ operator' = op
                /\ should_reset_display' = TRUE
                /\ raised' = "none"
           ELSE /\ previous_value' = c.previous_value
                /\ operator' = c.operator
                /\ should_reset_display' = c.should_reset_display
                /\ raised' = "ValueError"
        /\ UNCHANGED <<current_input, observers>>

calculate_result ==
    \E err \in ResultErrs(display_value, operator, previous_value) :
    \E c \in {CalculateResult(display_value, operator, previous_value,
                              should_reset_display, err)} :
        /\ display_value' = c.display_value
        /\ operator' = c.operator
        /\ previous_value' = c.previous_value
        /\ should_reset_display' = c.should_reset_display
        /\ display_var' = IF c.notified THEN Notify(c.display_value) ELSE display_var
        /\ raised' = "none"
        /\ UNCHANGED <<current_input, observers>>

\* clear_all without line 143: the pending operator survives
clear_all_keeps_operator ==
    /\ display_value' = <<"0">>
    /\ current_input' = <<>>
    /\ previous_value' = Zero
    /\ should_reset_display' = FALSE
    /\ display_var' = Notify(display_value')
    /\ raised' = "none"
    /\ UNCHANGED <<operator, observers>>

clear_all ==
    /\ display_value' = <<"0">>
    /\ current_input' = <<>>
    /\ operator' = None
    /\ previous_value' = Zero
    /\ should_reset_display' = FALSE
    /\ display_var' = Notify(display_value')
    /\ raised' = "none"
    /\ UNCHANGED observers

\* clear_entry that also drops the pending operator
clear_entry_clears_operator ==
    /\ display_value' = <<"0">>
    /\ current_input' = <<>>
    /\ operator' = None
    /\ display_var' = Notify(display_value')
    /\ raised' = "none"
    /\ UNCHANGED <<previous_value, should_reset_display, observers>>

clear_entry ==
    /\ display_value' = <<"0">>
    /\ current_input' = <<>>
    /\ display_var' = Notify(display_value')
    /\ raised' = "none"
    /\ UNCHANGED <<operator, previous_value, should_reset_display, observers>>

\* backspace slicing [1:] instead of [:-1]
backspace_drops_first ==
    /\ display_value' = IF Len(display_value) > 1 THEN DropFirst(display_value)
                        ELSE <<"0">>
    /\ display_var' = Notify(display_value')
    /\ raised' = "none"
    /\ UNCHANGED <<current_input, operator, previous_value, should_reset_display,
                   observers>>

backspace ==
    /\ display_value' = IF Len(display_value) > 1 THEN DropLast(display_value)
                        ELSE <<"0">>
    /\ display_var' = Notify(display_value')
    /\ raised' = "none"
    /\ UNCHANGED <<current_input, operator, previous_value, should_reset_display,
                   observers>>

\* toggle_sign without the startswith test: a sign is always prepended
ToggleSign_always_prepends(str) ==
    IF str # <<"0">> THEN <<"-">> \o str ELSE str

\* the display after toggle_sign()
ToggleSign(str) ==
    IF str # <<"0">>
    THEN IF StartsWith(str, "-") THEN DropFirst(str) ELSE <<"-">> \o str
    ELSE str

toggle_sign ==
    /\ display_value' = ToggleSign(display_value)
    /\ display_var' = IF display_value # <<"0">> THEN Notify(display_value')
                      ELSE display_var
    /\ raised' = "none"
    /\ UNCHANGED <<current_input, operator, previous_value, should_reset_display,
                   observers>>

\* calculate_percentage ending like calculate_result: the reset flag is set
calculate_percentage_sets_reset ==
    \E cur \in {ParseFloat(display_value)} :
        /\ IF cur.ok
           THEN \E result \in {Value(cur.m, 1, cur.s + 2)} :
                \E err \in Errs([m |-> cur.m, s |-> cur.s], Hundred, result) :
                    display_value' = FormatResult(result, err)
           ELSE display_value' = ErrorText
        /\ should_reset_display' = TRUE
        /\ display_var' = Notify(display_value')
        /\ raised' = "none"
        /\ UNCHANGED <<current_input, operator, previous_value, observers>>

calculate_percentage ==
    \E cur \in {ParseFloat(display_value)} :
        /\ IF cur.ok
           THEN \E result \in {Value(cur.m, 1, cur.s + 2)} :
                \E err \in Errs([m |-> cur.m, s |-> cur.s], Hundred, result) :
                    display_value' = FormatResult(result, err)
           ELSE display_value' = ErrorText
        /\ display_var' = Notify(display_value')
        /\ raised' = "none"
        /\ UNCHANGED <<current_input, operator, previous_value,
                       should_reset_display, observers>>

\* CalculatorViewModel.__init__, then CalculatorView.__init__ registering
\* update_display and create_widgets setting display_var
Init ==
    /\ display_value = <<"0">>
    /\ current_input = <<>>
    /\ operator = None
    /\ previous_value = Zero
    /\ should_reset_display = FALSE
    /\ observers = <<"update_display">>
    /\ display_var = <<"0">>
    /\ raised = "none"

\* ------------------------------------------------------------ the user

\* the digit keys pressed
Digits == {"0", "1", "3"}

\* the most keys pressed in a row without pressing C
MaxKeys == 6

\* the most digits of an operand of a scripted calculation
MaxOperand == 1

NumDigits(n) == Len(NatStr(Abs(n)))

\* the model's integers hold a op b
Fits(op, a, b) ==
    LET s == Max(a.s, b.s)
    IN  CASE op \in {"+", "-"} -> /\ NumDigits(a.m) + (s - a.s) <= 9
                                 /\ NumDigits(b.m) + (s - b.s) <= 9
          [] op = "*"          -> NumDigits(a.m) + NumDigits(b.m) <= 9
          [] OTHER             -> /\ NumDigits(b.m) <= 8
                                  /\ NumDigits(a.m) + (b.s - a.s) <= 9

\* the model's integers hold what calculate_result() would compute
CanCalculate ==
    LET cur == ParseFloat(display_value)
    IN  operator # None /\ cur.ok =>
            Fits(operator, previous_value, [m |-> cur.m, s |-> cur.s])

\* The script records the keys pressed since the last C for as long as they
\* follow test_calculator_viewmodel's calculations
\*     a [toggle_sign] op1 b =  [op2 c =]     and     a [toggle_sign] op1 b CE c =
\* a, b and c being the digits typed, and r1 the display after the first =;
\* pc is "start" after construction and "cleared" after C.
Start ==
    [pc |-> "start", a |-> <<>>, neg |-> FALSE, op1 |-> None, b |-> <<>>,
     r1 |-> <<>>, op2 |-> None, c |-> <<>>]

Off == [Start EXCEPT !.pc = "off"]

ScriptDigit(digit) ==
    CASE script.pc \in {"start", "cleared", "a"} ->
             [script EXCEPT !.pc = "a", !.a = @ \o <<digit>>]
      [] script.pc \in {"op1", "b"} ->
             [script EXCEPT !.pc = "b", !.b = @ \o <<digit>>]
      [] script.pc \in {"op2", "c"} ->
             [script EXCEPT !.pc = "c", !.c = @ \o <<digit>>]
      [] script.pc \in {"ce", "c9"} ->
             [script EXCEPT !.pc = "c9", !.c = @ \o <<digit>>]
      [] OTHER -> Off

ScriptOperator(op) ==
    CASE script.pc \in {"a", "a_neg"} -> [script EXCEPT !.pc = "op1", !.op1 = op]
      [] script.pc = "res1" -> [script EXCEPT !.pc = "op2", !.op2 = op]
      [] OTHER -> Off

ScriptEquals(shown) ==
    CASE script.pc = "b"  -> [script EXCEPT !.pc = "res1", !.r1 = shown]
      [] script.pc = "c"  -> [script EXCEPT !.pc = "res2"]
      [] script.pc = "c9" -> [script EXCEPT !.pc = "res9"]
      [] OTHER -> Off

ScriptToggleSign ==
    IF script.pc = "a" THEN [script EXCEPT !.pc = "a_neg", !.neg = TRUE] ELSE Off

ScriptClearEntry ==
    IF script.pc = "b" THEN [script EXCEPT !.pc = "ce"] ELSE Off

PressDigit ==
    \E digit \in Digits : input_digit(digit) /\ script' = ScriptDigit(digit)

PressDecimal == input_decimal /\ script' = Off

PressOperator ==
    \E op \in Operators :
        /\ operator # None /\ ~should_reset_display => CanCalculate
        /\ input_operator(op)
        /\ script' = ScriptOperator(op)

PressEquals ==
    CanCalculate /\ calculate_result /\ script' = ScriptEquals(display_value')

PressClear == clear_all /\ script' = [Start EXCEPT !.pc = "cleared"]

PressClearEntry == clear_entry /\ script' = ScriptClearEntry

PressBackspace == backspace /\ script' = Off

PressToggleSign == toggle_sign /\ script' = ScriptToggleSign

PressPercent == calculate_percentage /\ script' = Off

\* a key pressed while fewer than MaxKeys were since the last C
Budget(Pressed) ==
    keys < MaxKeys /\ keys' = keys + 1 /\ Pressed /\ UNCHANGED <<call, returned>>

\* any keys, at most MaxKeys of them between two presses of C
Next ==
    \/ Budget(PressDigit)
    \/ Budget(PressDecimal)
    \/ Budget(PressOperator)
    \/ Budget(PressEquals)
    \/ Budget(PressClearEntry)
    \/ Budget(PressBackspace)
    \/ Budget(PressToggleSign)
    \/ Budget(PressPercent)
    \/ keys' = 0 /\ PressClear /\ UNCHANGED <<call, returned>>

\* the ViewModel is driven through its commands only
NoCall == [method |-> "none"]

InitUser == Init /\ keys = 0 /\ script = Start /\ call = NoCall /\ returned = NoCall

Spec == InitUser /\ [][Next]_<<vars, keys, script, call, returned>>

\* a key that continues a scripted calculation whose operands have at most
\* MaxOperand digits
Scripted(Pressed) ==
    /\ Pressed
    /\ script'.pc # "off"
    /\ \A x \in {script'.a, script'.b, script'.c} : Len(x) <= MaxOperand
    /\ UNCHANGED <<keys, call, returned>>

ScriptNext ==
    \/ Scripted(PressDigit)
    \/ Scripted(PressOperator)
    \/ Scripted(PressEquals)
    \/ Scripted(PressClearEntry)
    \/ Scripted(PressToggleSign)
    \/ Scripted(PressClear)

SpecScript == InitUser /\ [][ScriptNext]_<<vars, keys, script, call, returned>>

\* ------------------------------------------- the CalculatorModel's callers

\* the largest mantissa of an operand passed to add, subtract, multiply, divide
MaxMantissa == 3

\* the operands: the decimals m and m / 10
Operands == {Norm(m, s) : m \in -MaxMantissa..MaxMantissa, s \in 0..1}

\* the characters of the expressions that reach eval, and of the others
ExprChars == {"0", "1", "/", "*", "-", "(", ")"}

OtherChars == {" ", "a", "\n"}

\* the longest expression over ExprChars, and over all the characters
MaxExprLen == 6

MaxAnyLen == 3

StringsUpTo(chars, n) == UNION {[1..k -> chars] : k \in 0..n}

Expressions ==
    StringsUpTo(ExprChars, MaxExprLen) \cup StringsUpTo(ExprChars \cup OtherChars, MaxAnyLen)

Calls ==
    {[method |-> m, a |-> a, b |-> b, expression |-> <<>>] :
        m \in {"add", "subtract", "multiply", "divide"}, a \in Operands, b \in Operands}
    \cup {[method |-> "evaluate_expression", a |-> Zero, b |-> Zero, expression |-> e] :
              e \in Expressions}

Pending == [exc |-> "pending"]

Returns(method, result) ==
    /\ call.method = method
    /\ returned = Pending
    /\ returned' = result
    /\ UNCHANGED <<vars, keys, script, call>>

CallAdd == Returns("add", add(call.a, call.b))

CallSubtract == Returns("subtract", subtract(call.a, call.b))

CallMultiply == Returns("multiply", multiply(call.a, call.b))

CallDivide == Returns("divide", divide(call.a, call.b))

CallEvaluateExpression ==
    Returns("evaluate_expression", EvaluateExpression(call.expression))

NextModel ==
    \/ CallAdd
    \/ CallSubtract
    \/ CallMultiply
    \/ CallDivide
    \/ CallEvaluateExpression

InitModel == Init /\ keys = 0 /\ script = Start /\ call \in Calls /\ returned = Pending

SpecModel == InitModel /\ [][NextModel]_<<vars, keys, script, call, returned>>

\* -------------------------------------------------------------- properties

allvars == <<vars, keys, script>>

\* a op b computed exactly, for decimals a and b with b # 0 when op is "/"
Exact(op, a, b) ==
    LET s == Max(a.s, b.s)
        x == a.m * Pow10(s - a.s)
        y == b.m * Pow10(s - b.s)
    IN  CASE op = "+" -> Value(x + y, 1, s)
          [] op = "-" -> Value(x - y, 1, s)
          [] op = "*" -> Value(a.m * b.m, 1, a.s + b.s)
          [] OTHER    -> Value(IF b.m < 0 THEN -a.m ELSE a.m, Abs(b.m), a.s - b.s)

\* (a op1 b) op2 c computed exactly, for integers a, b and c
Exact2(op1, a, b, op2, c) ==
    LET r == Exact(op1, a, b)
    IN  CASE op2 = "+" -> Value(r.n + c.m * r.d, r.d, 0)
          [] op2 = "-" -> Value(r.n - c.m * r.d, r.d, 0)
          [] op2 = "*" -> Value(r.n * c.m, r.d, 0)
          [] OTHER     -> Value(IF c.m < 0 THEN -r.n ELSE r.n, r.d * Abs(c.m), 0)

\* the texts that show the number r: as an integer when it is whole, else to
\* GPrecision significant digits
Shown(r) == {FormatResult(r, e) : e \in {-1, 0, 1}}

\* the integer typed as the digits str, negated if neg
Number(str, neg) == [m |-> IF neg THEN -ToNat(str) ELSE ToNat(str), s |-> 0]

DisplayedNumber(str) == [m |-> ParseFloat(str).m, s |-> ParseFloat(str).s]

DividesByZero(op, b) == op = "/" /\ b.m = 0

C2_BinaryCalculation ==
    script.pc = "res1" /\ ~DividesByZero(script.op1, Number(script.b, FALSE))
    => display_value \in
           Shown(Exact(script.op1, Number(script.a, script.neg), Number(script.b, FALSE)))

\* 1 toggle_sign - 3 = displays -4
C2_Witness ==
    /\ script.pc = "res1"
    /\ script.a = <<"1">> /\ script.neg /\ script.op1 = "-" /\ script.b = <<"3">>
    /\ display_value = <<"-", "4">>

\* C3: after a / 0 = the display starts with "Error:".
C3_DivisionByZeroMessage ==
    script.pc = "res1" /\ script.op1 = "/" /\ script.b = <<"0">>
    => /\ Len(display_value) >= 6
       /\ SubSeq(display_value, 1, 6) = ErrorText \o <<":">>

\* C4: after clear_all, invoked in any reachable state, the calculator is in
\* its initial state, the observers are kept and have been notified of "0".
C4_ClearAllResets ==
    script.pc = "cleared"
    => /\ display_value = <<"0">>
       /\ operator = None
       /\ previous_value = Zero
       /\ ~should_reset_display
       /\ observers = <<"update_display">>
       /\ display_var = <<"0">>

C4_Witness == script.pc = "cleared" /\ keys = 0 /\ display_var = <<"0">>

\* C5 as stated: input_digit(d) replaces a display of exactly "0" by d and
\* otherwise appends d to the display.
C5_DigitReplacesZeroOrAppends ==
    [][\A d \in Digits :
        input_digit(d)
        => display_value' = IF display_value = <<"0">> THEN <<d>>
                            ELSE display_value \o <<d>>
      ]_allvars

\* C5, amended: the initial display is "0"; input_digit(d) with the reset
\* flag not set replaces a display of exactly "0" by d and otherwise appends
\* d, and with the reset flag set makes the display d; so from the cleared
\* state the digits d1..dn, d1 not 0, display exactly d1..dn.
C5_DisplayBuiltFromDigits ==
    /\ display_value = <<"0">>
    /\ [][/\ \A d \in Digits :
               input_digit(d)
               => display_value' = IF should_reset_display \/ display_value = <<"0">>
                                   THEN <<d>> ELSE display_value \o <<d>>
          /\ script'.pc = "a" /\ script'.a[1] # "0" => display_value' = script'.a
         ]_allvars

\* 1 3 1 typed from the cleared state
C5_Witness ==
    script.pc = "a" /\ script.a = <<"1", "3", "1">> /\ display_value = <<"1", "3", "1">>

\* C6: the display contains at most one decimal point.
C6_AtMostOneDecimalPoint == Count(display_value, ".") <= 1

C8_Backspace ==
    [][backspace
       => /\ Len(display_value) > 1
             => display_value' \o <<display_value[Len(display_value)]>> = display_value
          /\ Len(display_value) = 1 => display_value' = <<"0">>
          /\ UNCHANGED <<operator, previous_value, should_reset_display>>
      ]_allvars

\* 1 toggle_sign backspace leaves the sign alone on the display
C8_Witness == display_value = <<"-">> /\ keys = 3 /\ script.pc = "off"

\* C9: clear_entry sets the display to "0" and leaves the pending operator,
\* the first operand and the reset flag unchanged, so a op b CE c = displays
\* a op c.
C9_ClearEntry ==
    [][/\ clear_entry
          => /\ display_value' = <<"0">>
             /\ UNCHANGED <<operator, previous_value, should_reset_display>>
       /\ script'.pc = "res9" /\ ~DividesByZero(script'.op1, Number(script'.c, FALSE))
          => display_value' \in
                 Shown(Exact(script'.op1, Number(script'.a, script'.neg),
                             Number(script'.c, FALSE)))
      ]_allvars

\* 3 - 1 CE 3 = displays 0
C9_Witness ==
    /\ script.pc = "res9"
    /\ script.a = <<"3">> /\ script.op1 = "-" /\ script.b = <<"1">> /\ script.c = <<"3">>
    /\ display_value = <<"0">>

\* C10 as stated: in every reachable state, toggle_sign twice in a row
\* restores the display.
C10_ToggleSignInvolution == ToggleSign(ToggleSign(display_value)) = display_value

\* C10, amended: in every reachable state whose display is not "-0",
\* toggle_sign twice in a row restores the display ("-0" becomes "0", which
\* toggle_sign leaves unchanged).
C10_ToggleSignInvolutionButMinusZero ==
    display_value # <<"-", "0">>
    => ToggleSign(ToggleSign(display_value)) = display_value

\* 1 3 toggle_sign displays -13, which toggle_sign twice leaves as it is
C10_Witness ==
    /\ script.pc = "a_neg"
    /\ display_value = <<"-", "1", "3">>
    /\ ToggleSign(display_value) = <<"1", "3">>

\* C11: calculate_percentage replaces the display by the displayed number
\* divided by 100, and changes neither the pending operator, the first
\* operand nor the reset flag.
C11_Percentage ==
    [][calculate_percentage
       => /\ ParseFloat(display_value).ok
             => display_value' \in
                    Shown(Exact("/", DisplayedNumber(display_value), Hundred))
          /\ UNCHANGED <<operator, previous_value, should_reset_display>>
      ]_allvars

\* 1 + 3 % : the display shows 0.03, and 1 + is still pending
C11_Witness ==
    /\ keys = 4
    /\ display_value = <<"0", ".", "0", "3">>
    /\ operator = "+"
    /\ previous_value = [m |-> 1, s |-> 0]
    /\ ~should_reset_display

\* a text of digits only, after an optional sign
IntegerText(str) ==
    /\ Len(str) > (IF StartsWith(str, "-") THEN 1 ELSE 0)
    /\ AllDigits(IF StartsWith(str, "-") THEN DropFirst(str) ELSE str)

\* the number of digits of the whole number r
WholeDigits(r) == Len(IntStr([r EXCEPT !.n = Abs(r.n)]))

C13_ViewShowsDisplayValue ==
    /\ display_var = display_value
    /\ observers = <<"update_display">>

\* 1 . : the View shows the point that input_decimal appended
C13_Witness ==
    /\ keys = 2
    /\ display_value = <<"1", ".">>
    /\ display_var = <<"1", ".">>

\* C14: divide(a, b) raises ZeroDivisionError if and only if b = 0, and
\* otherwise returns the quotient q, the number with q * b = a; add, subtract
\* and multiply never raise and return r with r = a + b, r = a - b, r = a * b.
\* A result is the number (n / d) / 10^s, an operand m / 10^s.
C14_ModelArithmetic ==
    returned # Pending /\ call.method \in {"add", "subtract", "multiply", "divide"}
    => LET a   == call.a
           b   == call.b
           r   == returned
           lhs == r.n * Pow10(a.s + b.s) * Pow10(-r.s)
           rhs == r.d * Pow10(r.s)
       IN  CASE call.method = "add" ->
                    /\ r.exc = "none"
                    /\ lhs = rhs * (a.m * Pow10(b.s) + b.m * Pow10(a.s))
             [] call.method = "subtract" ->
                    /\ r.exc = "none"
                    /\ lhs = rhs * (a.m * Pow10(b.s) - b.m * Pow10(a.s))
             [] call.method = "multiply" ->
                    /\ r.exc = "none"
                    /\ lhs = rhs * a.m * b.m
             [] OTHER ->
                    /\ r.exc = "ZeroDivisionError" <=> b.m = 0
                    /\ b.m # 0 =>
                          /\ r.exc = "none"
                          /\ r.d # 0
                          /\ r.n * b.m * Pow10(a.s) * Pow10(-(r.s + b.s))
                                 = a.m * r.d * Pow10(r.s + b.s)

\* divide(3, 0) has raised ZeroDivisionError
C14_Witness ==
    /\ call.method = "divide"
    /\ call.a = [m |-> 3, s |-> 0]
    /\ call.b = Zero
    /\ returned.exc = "ZeroDivisionError"

\* C15: an expression that, its spaces removed, holds a character other than
\* the digits and + - * / . ( ) is rejected with ValueError and never passed
\* to eval; the empty expression returns 0 without evaluation.
C15_AllowList ==
    returned # Pending /\ call.method = "evaluate_expression"
    => LET stripped == Remove(call.expression, " ")
       IN  /\ (\E i \in 1..Len(stripped) : stripped[i] \notin AllowedChars \ {" "})
              => returned.exc = "ValueError" /\ ~returned.evaluated
           /\ call.expression = <<>>
              => returned.exc = "none" /\ returned.n = 0 /\ ~returned.evaluated

\* C16: evaluate_expression raises ZeroDivisionError exactly for the allowed
\* expressions whose evaluation divides by zero: it raises it for every
\* expression whose evaluation does, and for no well-formed expression whose
\* value is defined.
C16_ZeroDivisionExactly ==
    returned # Pending /\ call.method = "evaluate_expression"
    => LET stripped == Remove(call.expression, " ")
           e        == Eval(stripped)
       IN  IsValidExpression(stripped)
           => /\ e.exc = "ZeroDivisionError" => returned.exc = "ZeroDivisionError"
              /\ returned.exc = "ZeroDivisionError"
                 => ~(e.exc = "none" /\ e.kind \in {"int", "float"})

\* C17: when input_operator is invoked while the reset flag is set, the
\* pending operation is not evaluated: the new operator replaces the pending
\* one, the display is unchanged, and the first operand becomes the numeric
\* value of the display.
C17_OperatorReplacedUnderResetFlag ==
    [][\A op \in Operators :
        should_reset_display /\ input_operator(op)
        => /\ operator' = op
           /\ display_value' = display_value
           /\ ParseFloat(display_value).ok
           /\ previous_value' = DisplayedNumber(display_value)
      ]_allvars

\* C18: after input_operator, and after a successful calculate_result, the
\* reset flag is set, and the next input_digit or input_decimal then replaces
\* the display, by the digit or by "0.", and clears the flag.
C18_NewNumberAfterOperatorOrResult ==
    [][/\ \A op \in Operators :
              (operator # None /\ ~should_reset_display => CanCalculate)
              /\ input_operator(op)
              => should_reset_display'
       /\ /\ operator # None
          /\ ParseFloat(display_value).ok
          /\ ~DividesByZero(operator, DisplayedNumber(display_value))
          /\ CanCalculate
          /\ calculate_result
          => should_reset_display'
       /\ \A d \in Digits :
              should_reset_display /\ input_digit(d)
              => display_value' = <<d>> /\ ~should_reset_display'
       /\ should_reset_display /\ input_decimal
          => display_value' = <<"0", ".">> /\ ~should_reset_display'
      ]_allvars

\* C19: calculate_result with no pending operator changes neither the
\* display, the first operand nor the reset flag and notifies no observer;
\* so after a successful calculate_result a second one changes nothing.
C19_NoOperatorNoOp ==
    [][operator = None
       => /\ ~CalculateResult(display_value, operator, previous_value,
                              should_reset_display, 0).notified
          /\ calculate_result
             => UNCHANGED <<display_value, operator, previous_value,
                            should_reset_display, display_var>>
      ]_allvars

\* 1 + 3 = = : the second = has left the 4 of the first
C19_Witness ==
    /\ keys = 5
    /\ script.pc = "off"
    /\ display_value = <<"4">>
    /\ operator = None
    /\ previous_value = Zero
    /\ should_reset_display

\* C20: when calculate_result fails, by a division by zero or a display that
\* is no number, the display becomes the error text and the pending operator,
\* the first operand and the reset flag keep their values.
C20_FailureKeepsCalculation ==
    [][/\ operator # None
       /\ \/ ~ParseFloat(display_value).ok
          \/ DividesByZero(operator, DisplayedNumber(display_value))
       /\ calculate_result
       => /\ display_value' = ErrorText
          /\ UNCHANGED <<operator, previous_value, should_reset_display>>
      ]_allvars

\* 1 / 0 = : the display shows Error and 1 / is still pending
C20_Witness ==
    /\ script.pc = "res1"
    /\ display_value = ErrorText
    /\ operator = "/"
    /\ previous_value = [m |-> 1, s |-> 0]
    /\ ~should_reset_display

\* C21: no ViewModel command raises an exception to its caller: after every
\* sequence of commands the last one has returned normally.
C21_NoCommandRaises == raised = "none"

\* C22: the display value is never the empty string: after any sequence of
\* commands it holds at least one character.
C22_DisplayNeverEmpty == Len(display_value) >= 1

\* the display is the error text followed by at least one digit
ErrorTextWithDigits(str) ==
    /\ Len(str) > Len(ErrorText)
    /\ SubSeq(str, 1, Len(ErrorText)) = ErrorText
    /\ \E i \in Len(ErrorText) + 1..Len(str) : IsDigit(str[i])

\* C23: once the display shows the error text, the next input_digit starts a
\* new number: the digit replaces the error text and is never appended to it,
\* so the display never holds error text mixed with digits.
C23_DigitReplacesErrorText ==
    /\ [][\A d \in Digits :
              display_value = ErrorText /\ input_digit(d) => display_value' = <<d>>
         ]_allvars
    /\ [](~ErrorTextWithDigits(display_value))

\* str without its leading '-', if it has one
Unsigned(str) == IF StartsWith(str, "-") THEN DropFirst(str) ELSE str

\* C24: the displayed number has no superfluous leading zero: the display
\* never begins, after an optional '-', with '0' immediately followed by
\* another digit.
C24_NoLeadingZero ==
    ~(/\ Len(Unsigned(display_value)) >= 2
      /\ Unsigned(display_value)[1] = "0"
      /\ IsDigit(Unsigned(display_value)[2]))

====
